---- MODULE Spec2Model ----
(***************************************************************************)
(* A model of two units of the browser front end:                          *)
(*                                                                         *)
(*   - ContentLinkHandler (ContentLinkHandler.jsm): the DOMLinkAdded /     *)
(*     DOMLinkChanged listener onLinkEvent and the icon validator          *)
(*     getLinkIconURI;                                                     *)
(*   - devtools/client/memory/utils.js: createSnapshot and its id counter, *)
(*     with the read-only helpers that are called between two creations.   *)
(*                                                                         *)
(* Strings are sequences of one-character strings, so that toLowerCase,    *)
(* split and the regular expressions of the source are computed on the     *)
(* characters and not assumed.                                             *)
(***************************************************************************)
EXTENDS Integers, Sequences, FiniteSets, TLC

VARIABLES
    link,        \* the <link> element the page holds (event.originalTarget)
    env,         \* what the host answers for this link: preference, checks, services
    evType,      \* type of the latest event handled, "none" before the first
    trace,       \* effects of the latest onLinkEvent call, in program order
    threw,       \* TRUE when the latest onLinkEvent call ended by an exception
    ID_COUNTER,  \* utils.js: let ID_COUNTER
    issued,      \* the snapshots createSnapshot has returned, oldest first
    result       \* what the latest helper of utils.js returned

vars == <<link, env, evType, trace, threw, ID_COUNTER, issued, result>>
linkVars == <<link, env, evType, trace, threw>>
snapVars == <<ID_COUNTER, issued, result>>

-----------------------------------------------------------------------------
(* Bounds of the model. *)

\* longest rel attribute of the dispatch inputs, in words
MaxRelWords == 3
\* longest sizes token list of the telemetry inputs
MaxSizes == 3
\* createSnapshot calls explored in one process lifetime
MaxSnapshots == 4

-----------------------------------------------------------------------------
(* Characters and strings. *)

UPPER == <<"A","B","C","D","E","F","G","H","I","J","K","L","M",
           "N","O","P","Q","R","S","T","U","V","W","X","Y","Z">>
LOWER == <<"a","b","c","d","e","f","g","h","i","j","k","l","m",
           "n","o","p","q","r","s","t","u","v","w","x","y","z">>
DIGITS == <<"0","1","2","3","4","5","6","7","8","9">>

ToLowerChar(c) ==
    IF \E i \in 1..26 : UPPER[i] = c
    THEN LOWER[CHOOSE i \in 1..26 : UPPER[i] = c]
    ELSE c

\* String.prototype.toLowerCase
ToLowerCase(s) == [i \in 1..Len(s) |-> ToLowerChar(s[i])]

\* the class \s of a regular expression, on the characters the inputs use
IsSpace(c) == c \in {" ", "\t", "\n", "\r", "\f"}

IsDigit(c) == \E i \in 1..10 : DIGITS[i] = c
DigitValue(c) == (CHOOSE i \in 1..10 : DIGITS[i] = c) - 1

StartsWith(s, p) == Len(s) >= Len(p) /\ SubSeq(s, 1, Len(p)) = p

Drop(s, n) == SubSeq(s, n + 1, Len(s))

RECURSIVE SkipSpaces(_)
SkipSpaces(s) ==
    IF s # <<>> /\ IsSpace(Head(s)) THEN SkipSpaces(Tail(s)) ELSE s

\* rel.split(/\s+/): cur is the token being read, out the tokens read so far
RECURSIVE SplitLoop(_, _, _)
SplitLoop(s, cur, out) ==
    IF s = <<>> THEN Append(out, cur)
    ELSE IF IsSpace(Head(s))
         THEN SplitLoop(SkipSpaces(s), <<>>, Append(out, cur))
         ELSE SplitLoop(Tail(s), Append(cur, Head(s)), out)

SplitSpaces(s) == SplitLoop(s, <<>>, <<>>)

\* the keys of rels in for..in order: first occurrences, in insertion order
RECURSIVE KeysLoop(_, _)
KeysLoop(tokens, keys) ==
    IF tokens = <<>> THEN keys
    ELSE KeysLoop(Tail(tokens),
                  IF \E i \in 1..Len(keys) : keys[i] = Head(tokens)
                  THEN keys
                  ELSE Append(keys, Head(tokens)))

RelKeys(rel) == KeysLoop(SplitSpaces(rel), <<>>)

Has(keys, k) == \E i \in 1..Len(keys) : keys[i] = k

-----------------------------------------------------------------------------
(* String literals of the source. *)

S_feed == <<"f","e","e","d">>
S_alternate == <<"a","l","t","e","r","n","a","t","e">>
S_stylesheet == <<"s","t","y","l","e","s","h","e","e","t">>
S_icon == <<"i","c","o","n">>
S_search == <<"s","e","a","r","c","h">>
S_any == <<"a","n","y">>
S_chrome == <<"c","h","r","o","m","e">>
S_http == <<"h","t","t","p">>
S_ftp == <<"f","t","p">>
S_opensearch ==
    <<"a","p","p","l","i","c","a","t","i","o","n","/",
      "o","p","e","n","s","e","a","r","c","h",
      "d","e","s","c","r","i","p","t","i","o","n","+","x","m","l">>
S_about == <<"a","b","o","u","t",":">>
S_neterrorQ == S_about \o <<"n","e","t","e","r","r","o","r","?">>
S_blockedQ == S_about \o <<"b","l","o","c","k","e","d","?">>
S_certerrorQ == S_about \o <<"c","e","r","t","e","r","r","o","r","?">>
S_home == S_about \o <<"h","o","m","e">>

-----------------------------------------------------------------------------
(* ContentLinkHandler: constants and regular expressions. *)

\* SIZES_TELEMETRY_ENUM
NO_SIZES == 0
ANY == 1
DIMENSION == 2
INVALID == 3

RECURSIVE DigitRun(_)
DigitRun(s) ==
    IF s # <<>> /\ IsDigit(Head(s)) THEN <<Head(s)>> \o DigitRun(Tail(s)) ELSE <<>>

\* [1-9][0-9]* against the whole of d
IsNumeral(d) == d # <<>> /\ DigitRun(d) = d /\ d[1] # "0"

\* the pattern without its [1-9]: /^([0-9]+)x[0-9]+$/i
SizeExecAnyDigits(size) ==
    LET w == DigitRun(size)
        rest == Drop(size, Len(w))
    IN  IF /\ w # <<>>
           /\ rest # <<>>
           /\ ToLowerChar(rest[1]) = "x"
           /\ Drop(rest, 1) # <<>>
           /\ DigitRun(Drop(rest, 1)) = Drop(rest, 1)
        THEN <<size, w>>
        ELSE <<>>

\* /^([1-9][0-9]*)x[1-9][0-9]*$/i .exec(size): <<size, group 1>>, or <<>> for null
SizeExec(size) ==
    LET w == DigitRun(size)
        rest == Drop(size, Len(w))
    IN  IF /\ IsNumeral(w)
           /\ rest # <<>>
           /\ ToLowerChar(rest[1]) = "x"
           /\ IsNumeral(Drop(rest, 1))
        THEN <<size, w>>
        ELSE <<>>

\* parseInt of a digit string
RECURSIVE ParseIntLoop(_, _)
ParseIntLoop(d, acc) ==
    IF d = <<>> THEN acc ELSE ParseIntLoop(Tail(d), 10 * acc + DigitValue(Head(d)))

ParseInt(d) == ParseIntLoop(d, 0)

\* \s*(?:;.*)?$ matched at the start of s ("." takes no line terminator)
TypeTailMatches(s) ==
    LET r == SkipSpaces(s)
    IN  \/ r = <<>>
        \/ /\ Head(r) = ";"
           /\ \A i \in 2..Len(r) : r[i] \notin {"\n", "\r"}

\* the text left of the first place where \s*(?:;.*)?$ matches
RECURSIVE CutTypeTail(_)
CutTypeTail(s) ==
    IF TypeTailMatches(s) THEN <<>> ELSE <<Head(s)>> \o CutTypeTail(Tail(s))

\* type.replace(/^\s+|\s*(?:;.*)?$/g, "")
StripType(type) == CutTypeTail(SkipSpaces(type))

\* /^(?:https?|ftp):/i .test(href)
SearchHrefTest(href) ==
    LET h == ToLowerCase(href)
    IN  \/ StartsWith(h, S_http \o <<":">>)
        \/ StartsWith(h, S_http \o <<"s", ":">>)
        \/ StartsWith(h, S_ftp \o <<":">>)

\* the four patterns of isAllowedPage, tested on targetDoc.documentURI
IsAllowedPage(documentURI) ==
    \/ StartsWith(documentURI, S_neterrorQ)
    \/ StartsWith(documentURI, S_blockedQ)
    \/ StartsWith(documentURI, S_certerrorQ)
    \/ documentURI = S_home

-----------------------------------------------------------------------------
(* The host's URI objects. *)

RECURSIVE SchemeOf(_)
SchemeOf(s) ==
    IF s = <<>> \/ Head(s) = ":" THEN <<>> ELSE <<ToLowerChar(Head(s))>> \o SchemeOf(Tail(s))

\* BrowserUtils.makeURI(href, charset), when it does not throw
MakeURI(href, e) == [spec |-> href, scheme |-> SchemeOf(href), userPass |-> e.userPass]

\* nsIURI.schemeIs
SchemeIs(uri, scheme) == uri.scheme = scheme

NoURI == [spec |-> <<>>, scheme |-> <<>>, userPass |-> FALSE]

-----------------------------------------------------------------------------
(* ContentLinkHandler.getLinkIconURI. The result is                         *)
(*   kind  "uri" (a URI is returned), "null", or "throw" (an exception      *)
(*         leaves the function),                                            *)
(*   uri   the URI returned,                                                *)
(*   log   the calls made on the host, in order.                            *)

IconReturn(kind, uri, log) == [kind |-> kind, uri |-> uri, log |-> log]

\* if (!isAllowedPage || !uri.schemeIs("chrome"))
NeedsLoadCheckBoth(isAllowedPage, isChrome) == ~isAllowedPage /\ ~isChrome
NeedsLoadCheck(isAllowedPage, isChrome) == ~isAllowedPage \/ ~isChrome

\* try { uri.userPass = ""; } catch(e) { }
ClearUserPass(uri, e) == IF e.immutable THEN uri ELSE [uri EXCEPT !.userPass = FALSE]

\* from the content policy service on: lines 160-179
IconPolicyStep(uri, e, log) ==
    IF ~e.policyAvailable
    THEN IconReturn("null", NoURI, Append(log, [op |-> "getService", threw |-> TRUE]))
    ELSE LET log2 == log \o << [op |-> "getService", threw |-> FALSE],
                              [op |-> "shouldLoad", verdict |-> e.shouldLoad] >>
         IN  IF e.shouldLoad = "throws" THEN IconReturn("throw", NoURI, log2)
             ELSE IF e.shouldLoad # "ACCEPT" THEN IconReturn("null", NoURI, log2)
             ELSE IconReturn("uri", ClearUserPass(uri, e), log2)

GetLinkIconURI(aLink, e) ==
    LET mk == [op |-> "makeURI", threw |-> e.makeURIThrows]
    IN  IF e.makeURIThrows THEN IconReturn("throw", NoURI, <<mk>>)
        ELSE
        LET uri == MakeURI(aLink.href, e)
            isAllowedPage == IsAllowedPage(aLink.documentURI)
        IN  IF NeedsLoadCheck(isAllowedPage, SchemeIs(uri, S_chrome))
            THEN LET chk == [op |-> "checkLoadURIWithPrincipal",
                             threw |-> e.checkLoadThrows]
                 IN  IF e.checkLoadThrows
                     THEN IconReturn("null", NoURI, <<mk, chk>>)
                     ELSE IconPolicyStep(uri, e, <<mk, chk>>)
            ELSE IconPolicyStep(uri, e, <<mk>>)

-----------------------------------------------------------------------------
(* ContentLinkHandler.onLinkEvent.                                          *)
(* st is the state of one call: the three flags, the effects so far and     *)
(* whether an exception has left the function.                              *)

Msg(name, data) == [op |-> "sendAsyncMessage", name |-> name, data |-> data]
Hist(id, sample) == [op |-> "histogramAdd", id |-> id, sample |-> sample]

CallStart ==
    [feedAdded |-> FALSE, iconAdded |-> FALSE, searchAdded |-> FALSE,
     trace |-> <<>>, threw |-> FALSE]

\* the loop over link.sizes: the histogram samples and the value of sizesType.
\* A pass that ends neither in "any" nor in a mismatch leaves DIMENSION.
RECURSIVE SizesLoop(_, _)
SizesLoop(sizes, dims) ==
    IF sizes = <<>> THEN [sizesType |-> DIMENSION, dims |-> dims]
    ELSE LET size == Head(sizes)
             values == SizeExec(size)
         IN  IF ToLowerCase(size) = S_any
             THEN [sizesType |-> ANY, dims |-> dims]
             ELSE IF values # <<>> /\ Len(values) > 1
                  THEN SizesLoop(Tail(sizes), Append(dims, ParseInt(values[2])))
                  ELSE [sizesType |-> INVALID, dims |-> dims]

\* lines 83-108: the samples added to the two histograms, in order
SizesTelemetry(sizes) ==
    LET scan == IF Len(sizes) # 0 THEN SizesLoop(sizes, <<>>)
                ELSE [sizesType |-> NO_SIZES, dims |-> <<>>]
    IN  [i \in 1..Len(scan.dims) |->
            Hist("LINK_ICON_SIZES_ATTR_DIMENSION", scan.dims[i])]
        \o << Hist("LINK_ICON_SIZES_ATTR_USAGE", scan.sizesType) >>

\* case "feed": case "alternate":
IsFeedCaseWide(relVal) == relVal \in {S_feed, S_alternate, S_stylesheet}
IsFeedCase(relVal) == relVal = S_feed \/ relVal = S_alternate

\* if (!feedAdded && event.type == "DOMLinkAdded")
FeedGuardNoFlag(st, type) == type = "DOMLinkAdded"
FeedGuard(st, type) == ~st.feedAdded /\ type = "DOMLinkAdded"

\* if (!rels.feed && rels.alternate && rels.stylesheet) break;
StylesheetAlternate(rels) ==
    ~Has(rels, S_feed) /\ Has(rels, S_alternate) /\ Has(rels, S_stylesheet)

FeedCase(rels, type, l, e, st) ==
    IF ~FeedGuard(st, type) \/ StylesheetAlternate(rels) THEN st
    ELSE LET call == [op |-> "isValidFeed", hasFeed |-> Has(rels, S_feed),
                      ret |-> e.validFeed]
             msg == Msg("Link:AddFeed",
                        [type |-> l.type, href |-> l.href, title |-> l.title])
         IN  IF e.validFeed
             THEN [st EXCEPT !.trace = @ \o <<call, msg>>, !.feedAdded = TRUE]
             ELSE [st EXCEPT !.trace = Append(@, call)]

\* if (iconAdded || !Services.prefs.getBoolPref("browser.chrome.site_icons")) break;
IconSkipNoPref(st, e) == st.iconAdded
IconSkip(st, e) == st.iconAdded \/ ~e.siteIcons

IconCase(l, e, st) ==
    IF IconSkip(st, e) THEN st
    ELSE LET got == GetLinkIconURI(l, e)
             call == [op |-> "getLinkIconURI", ret |-> got.kind]
             st1 == [st EXCEPT !.trace = (@ \o got.log) \o <<call>>]
         IN  IF got.kind = "throw" THEN [st1 EXCEPT !.threw = TRUE]
             ELSE IF got.kind = "null" THEN st1
             ELSE [st1 EXCEPT
                     !.trace = (@ \o SizesTelemetry(l.sizes)) \o
                               << Msg("Link:SetIcon",
                                      [url |-> got.uri.spec,
                                       loadingPrincipal |-> "nodePrincipal"]) >>,
                     !.iconAdded = TRUE]

\* if (!searchAdded && event.type == "DOMLinkAdded")
SearchGuard(st, type) == ~st.searchAdded /\ type = "DOMLinkAdded"

SearchCase(type, l, st) ==
    IF ~SearchGuard(st, type) THEN st
    ELSE LET mime == StripType(ToLowerCase(l.type))
         IN  IF mime = S_opensearch /\ l.title # <<>> /\ SearchHrefTest(l.href)
             THEN [st EXCEPT
                     !.trace = Append(@, Msg("Link:AddSearch",
                                   [engine |-> [title |-> l.title, href |-> l.href],
                                    url |-> l.documentURI])),
                     !.searchAdded = TRUE]
             ELSE st

\* for (let relVal in rels) switch (relVal)
RECURSIVE RelLoop(_, _, _, _, _, _)
RelLoop(keys, rels, type, l, e, st) ==
    IF keys = <<>> \/ st.threw THEN st
    ELSE LET relVal == Head(keys)
             st1 == IF IsFeedCase(relVal) THEN FeedCase(rels, type, l, e, st)
                    ELSE IF relVal = S_icon THEN IconCase(l, e, st)
                    ELSE IF relVal = S_search THEN SearchCase(type, l, st)
                    ELSE st
         IN  RelLoop(Tail(keys), rels, type, l, e, st1)

\* if (window != window.top) return;
IsSubFrameNever(l) == FALSE
IsSubFrame(l) == ~l.top

\* A <link> element of a document always has its ownerDocument, so of the
\* guard of line 41 the empty rel and the empty href are what can hold.
OnLinkEvent(type, l, e) ==
    LET rel == ToLowerCase(l.rel)
    IN  IF rel = <<>> \/ l.href = <<>> THEN CallStart
        ELSE IF IsSubFrame(l) THEN CallStart
        ELSE LET rels == RelKeys(rel)
             IN  RelLoop(rels, rels, type, l, e, CallStart)

-----------------------------------------------------------------------------
(* The pages explored: a <link> element and the host's answers for it.      *)

SeqsUpTo(S, n) == UNION { [1..k -> S] : k \in 0..n }

\* the words joined by one space
RECURSIVE JoinWords(_)
JoinWords(ws) ==
    IF ws = <<>> THEN <<>>
    ELSE IF Len(ws) = 1 THEN ws[1]
    ELSE (ws[1] \o <<" ">>) \o JoinWords(Tail(ws))

S_nofollow == <<"n","o","f","o","l","l","o","w">>
S_hostPart == <<"/","/","a",".","b","/","c">>
S_title == <<"T">>

RelWords == {S_feed, S_alternate, S_stylesheet, S_icon, S_search, S_nofollow}

\* rel attributes with upper case, repeated, leading and trailing white space
OddRels ==
    { <<>>,
      <<" ">> \o S_feed,
      S_feed \o <<" ">>,
      <<"F","E","E","D">>,
      <<"A">> \o Tail(S_alternate) \o <<" ", " ", "S">> \o Tail(S_stylesheet),
      <<"I","c","o","n","\t">> \o S_feed \o <<"\n">> \o S_search,
      <<"f","e","e","d","s">>,
      S_icon \o S_feed }

DispatchRels == { JoinWords(ws) : ws \in SeqsUpTo(RelWords, MaxRelWords) } \cup OddRels

Link(rel, href, type, title, sizes, top, documentURI) ==
    [rel |-> rel, href |-> href, type |-> type, title |-> title, sizes |-> sizes,
     top |-> top, documentURI |-> documentURI]

S_httpHref == (S_http \o <<":">>) \o S_hostPart
S_pageURI == (S_http \o <<"s", ":">>) \o <<"/","/","p","/">>

\* every host check passes
EnvOK ==
    [siteIcons |-> TRUE, validFeed |-> TRUE, makeURIThrows |-> FALSE,
     checkLoadThrows |-> FALSE, policyAvailable |-> TRUE, shouldLoad |-> "ACCEPT",
     immutable |-> FALSE, userPass |-> FALSE]

\* the three ways the icon validator ends: a URI, null, an exception
IconOutcomeEnvs ==
    { EnvOK,
      [EnvOK EXCEPT !.checkLoadThrows = TRUE],
      [EnvOK EXCEPT !.makeURIThrows = TRUE] }

\* top-level links over every rel, with each outcome of the host checks
DispatchPages ==
    \E rel \in DispatchRels, type \in {<<>>, S_opensearch},
       e \in IconOutcomeEnvs, si \in BOOLEAN, vf \in BOOLEAN :
        /\ link = Link(rel, S_httpHref, type, S_title, <<>>, TRUE, S_pageURI)
        /\ env = [e EXCEPT !.siteIcons = si, !.validFeed = vf]

\* the same links in a sub-frame
SubFramePages ==
    \E rel \in DispatchRels, type \in {<<>>, S_opensearch} :
        /\ link = Link(rel, S_httpHref, type, S_title, <<>>, FALSE, S_pageURI)
        /\ env = EnvOK

\* links without href
NoHrefPages ==
    \E rel \in OddRels \cup RelWords :
        /\ link = Link(rel, <<>>, S_opensearch, S_title, <<>>, TRUE, S_pageURI)
        /\ env = EnvOK

SearchSchemes ==
    { S_http, S_http \o <<"s">>, S_ftp, <<"H","T","T","P">>, <<"F","t","P">>,
      S_http \o <<"x">>, S_ftp \o <<"s">>, <<"x">> \o S_http, S_chrome,
      <<"f","i","l","e">> }

SearchHrefs ==
    { (sc \o <<":">>) \o S_hostPart : sc \in SearchSchemes }
    \cup { S_http \o S_hostPart, <<":">> \o S_http, <<" ">> \o S_httpHref }

SearchTypes ==
    { <<>>,
      S_opensearch,
      <<"A">> \o Tail(S_opensearch),
      <<" ", "\t">> \o S_opensearch,
      S_opensearch \o <<" ">>,
      S_opensearch \o <<";", "q", "=", "1">>,
      S_opensearch \o <<" ", ";", " ", "a", ";", "b">>,
      S_opensearch \o <<";">>,
      S_opensearch \o <<" ", "x">>,
      S_opensearch \o <<"x">>,
      <<";">> \o S_opensearch,
      <<"x">> \o S_opensearch,
      <<"t","e","x","t","/","x","m","l">> }

\* search links over the hrefs, types and titles
SearchPages ==
    \E rel \in { S_search, JoinWords(<<S_icon, S_search>>),
                 JoinWords(<<S_search, S_icon>>) },
       href \in SearchHrefs, type \in SearchTypes, title \in {<<>>, S_title},
       e \in IconOutcomeEnvs :
        /\ link = Link(rel, href, type, title, <<>>, TRUE, S_pageURI)
        /\ env = e

SizeTokens ==
    { <<"1","6","x","1","6">>,
      <<"3","2","X","8">>,
      S_any,
      <<"A","n","y">>,
      <<"0","x","1","6">>,
      <<"1","6","x","0","1","6">>,
      <<"1","6","x">> }

\* icon links over the sizes attribute
SizesPages ==
    \E sizes \in SeqsUpTo(SizeTokens, MaxSizes),
       e \in {EnvOK, [EnvOK EXCEPT !.shouldLoad = "REJECT_REQUEST"]},
       si \in BOOLEAN :
        /\ link = Link(S_icon, S_httpHref, <<>>, <<>>, sizes, TRUE, S_pageURI)
        /\ env = [e EXCEPT !.siteIcons = si]

DocumentURIs ==
    { S_pageURI,
      S_neterrorQ \o <<"e","=","1">>,
      S_blockedQ,
      S_certerrorQ \o <<"e">>,
      S_home,
      S_home \o <<"x">>,
      S_about \o <<"n","e","t","e","r","r","o","r">>,
      <<"x">> \o S_home }

IconHrefs ==
    { S_httpHref,
      (S_chrome \o <<":">>) \o S_hostPart,
      (<<"C","H","R","O","M","E">> \o <<":">>) \o S_hostPart,
      (S_chrome \o <<"s", ":">>) \o S_hostPart }

IconEnvs ==
    [siteIcons : {TRUE}, validFeed : {TRUE}, makeURIThrows : BOOLEAN,
     checkLoadThrows : BOOLEAN, policyAvailable : BOOLEAN,
     shouldLoad : {"ACCEPT", "REJECT_REQUEST", "throws"},
     immutable : BOOLEAN, userPass : BOOLEAN]

\* icon links over the documents, the icon URIs and every host answer
IconPages ==
    \E rel \in { S_icon, JoinWords(<<S_icon, S_feed>>) },
       href \in IconHrefs, doc \in DocumentURIs, e \in IconEnvs :
        /\ link = Link(rel, href, <<>>, <<>>, <<>>, TRUE, doc)
        /\ env = e

-----------------------------------------------------------------------------
(* The link handler as a state machine: init registers the two listeners,  *)
(* each event runs onLinkEvent to its end.                                  *)

NoResult == [fn |-> "none"]

InitSnapshots ==
    /\ ID_COUNTER = 0
    /\ issued = <<>>
    /\ result = NoResult

InitLink ==
    /\ \/ DispatchPages
       \/ SubFramePages
       \/ NoHrefPages
       \/ SearchPages
       \/ SizesPages
       \/ IconPages
    /\ evType = "none"
    /\ trace = <<>>
    /\ threw = FALSE
    /\ InitSnapshots

\* the call has run to its end, by a return or by an exception
Handled(type, st) ==
    /\ evType' = type
    /\ trace' = st.trace
    /\ threw' = st.threw
    /\ UNCHANGED <<link, env>>
    /\ UNCHANGED snapVars

DOMLinkAdded ==
    \E st \in {OnLinkEvent("DOMLinkAdded", link, env)} : Handled("DOMLinkAdded", st)

DOMLinkChanged ==
    \E st \in {OnLinkEvent("DOMLinkChanged", link, env)} : Handled("DOMLinkChanged", st)

NextLink == DOMLinkAdded \/ DOMLinkChanged

SpecLink == InitLink /\ [][NextLink]_vars

-----------------------------------------------------------------------------
(* devtools/client/memory/utils.js: createSnapshot and the helpers that    *)
(* read snapshots.                                                          *)

\* JavaScript null, where the other values are records
Null == [null |-> TRUE]

\* the enumerations of ./constants
SnapshotStates ==
    {"ERROR", "IMPORTING", "SAVING", "SAVED", "READING", "READ",
     "SAVING_CENSUS", "SAVED_CENSUS"}
DominatorTreeStates ==
    {"COMPUTING", "COMPUTED", "FETCHING", "INCREMENTAL_FETCHING", "LOADED", "ERROR"}
Views == {"census", "diffing", "dominator-tree"}

\* ++ID_COUNTER: the counter after the call, which is also the id
PreIncrementStuck(counter) == counter
PreIncrement(counter) == counter + 1

\* the object createSnapshot returns
NewSnapshot(id, view) ==
    [id |-> id,
     state |-> "SAVING",
     dominatorTree |->
        IF view = "dominator-tree"
        THEN [dominatorTreeId |-> Null, root |-> Null, error |-> Null,
              state |-> "COMPUTING"]
        ELSE Null,
     census |-> Null,
     path |-> Null,
     imported |-> FALSE,
     selected |-> FALSE,
     error |-> Null]

SnapshotIsDiffable(snapshot) ==
    \/ snapshot.state = "SAVED_CENSUS"
    \/ snapshot.state = "SAVING_CENSUS"
    \/ snapshot.state = "SAVED"
    \/ snapshot.state = "READ"

DominatorTreeIsComputed(snapshot) ==
    /\ snapshot.dominatorTree # Null
    /\ \/ snapshot.dominatorTree.state = "COMPUTED"
       \/ snapshot.dominatorTree.state = "LOADED"
       \/ snapshot.dominatorTree.state = "INCREMENTAL_FETCHING"

\* state.snapshots.find(s => s.id === id) has a result
Found(snapshots, id) == \E i \in 1..Len(snapshots) : snapshots[i].id = id

InitSnap ==
    /\ link = Link(S_icon, S_httpHref, <<>>, <<>>, <<>>, TRUE, S_pageURI)
    /\ env = EnvOK
    /\ evType = "none"
    /\ trace = <<>>
    /\ threw = FALSE
    /\ InitSnapshots

CreateSnapshot ==
    /\ Len(issued) < MaxSnapshots
    /\ \E view \in Views :
        /\ ID_COUNTER' = PreIncrement(ID_COUNTER)
        /\ issued' = Append(issued, NewSnapshot(ID_COUNTER', view))
        /\ result' = [fn |-> "createSnapshot", id |-> ID_COUNTER']
    /\ UNCHANGED linkVars

\* getSnapshot on the snapshots created so far; the assert throws when none has the id
GetSnapshot ==
    /\ \E id \in 0..(MaxSnapshots + 1) :
        result' = [fn |-> "getSnapshot", id |-> id, threw |-> ~Found(issued, id)]
    /\ UNCHANGED <<ID_COUNTER, issued>>
    /\ UNCHANGED linkVars

\* a created snapshot after the store has moved it to another state
CallSnapshotIsDiffable ==
    /\ \E i \in 1..Len(issued), state \in SnapshotStates :
        result' = [fn |-> "snapshotIsDiffable", id |-> issued[i].id, state |-> state,
                   value |-> SnapshotIsDiffable([issued[i] EXCEPT !.state = state])]
    /\ UNCHANGED <<ID_COUNTER, issued>>
    /\ UNCHANGED linkVars

\* a created snapshot after the store has moved its dominator tree on
CallDominatorTreeIsComputed ==
    /\ \E i \in 1..Len(issued), state \in DominatorTreeStates :
        LET snapshot == IF issued[i].dominatorTree = Null THEN issued[i]
                        ELSE [issued[i] EXCEPT !.dominatorTree.state = state]
        IN  result' = [fn |-> "dominatorTreeIsComputed", id |-> snapshot.id,
                       value |-> DominatorTreeIsComputed(snapshot)]
    /\ UNCHANGED <<ID_COUNTER, issued>>
    /\ UNCHANGED linkVars

NextSnap ==
    \/ CreateSnapshot
    \/ GetSnapshot
    \/ CallSnapshotIsDiffable
    \/ CallDominatorTreeIsComputed

SpecSnap == InitSnap /\ [][NextSnap]_vars

-----------------------------------------------------------------------------
(* Properties of the link handler, checked under SpecLink.                  *)

Entries(op) == { i \in 1..Len(trace) : trace[i].op = op }

\* the places of the trace where the message was sent
Sent(name) == { i \in Entries("sendAsyncMessage") : trace[i].name = name }

\* the samples added to a histogram, in order
RECURSIVE SamplesOf(_, _)
SamplesOf(id, t) ==
    IF t = <<>> THEN <<>>
    ELSE IF Head(t).op = "histogramAdd" /\ Head(t).id = id
         THEN <<Head(t).sample>> \o SamplesOf(id, Tail(t))
         ELSE SamplesOf(id, Tail(t))

HandledEvent == evType # "none"

\* the lower-cased tokens of link.rel
RelTokens == RelKeys(ToLowerCase(link.rel))

\* a top-level document link with non-empty rel and href
TopLevelLink == link.top /\ link.rel # <<>> /\ link.href # <<>>

\* C1: one call of onLinkEvent sends at most one Link:AddFeed, at most one
\* Link:SetIcon and at most one Link:AddSearch.
C1_AtMostOnePerKind ==
    \A name \in {"Link:AddFeed", "Link:SetIcon", "Link:AddSearch"} :
        Cardinality(Sent(name)) <= 1

\* a rel with a repeated token and both feed and alternate, which sent one AddFeed
C1_Witness ==
    /\ evType = "DOMLinkAdded"
    /\ Has(RelTokens, S_feed) /\ Has(RelTokens, S_alternate)
    /\ Len(SplitSpaces(ToLowerCase(link.rel))) > Len(RelTokens)
    /\ Cardinality(Sent("Link:AddFeed")) = 1

\* C2: for a top-level link, Link:AddFeed is sent if and only if the event is
\* DOMLinkAdded, the tokens hold feed or alternate, they are not alternate and
\* stylesheet without feed, and Feeds.isValidFeed answers true.
C2_FeedIff ==
    (HandledEvent /\ TopLevelLink) =>
        ( Sent("Link:AddFeed") # {}
          <=> /\ evType = "DOMLinkAdded"
              /\ Has(RelTokens, S_feed) \/ Has(RelTokens, S_alternate)
              /\ ~( /\ Has(RelTokens, S_alternate)
                    /\ Has(RelTokens, S_stylesheet)
                    /\ ~Has(RelTokens, S_feed) )
              /\ env.validFeed )

\* C3: for a top-level link with an icon token, on either event, Link:SetIcon is
\* sent if and only if the site_icons preference is true and getLinkIconURI
\* returns a URI; otherwise no Link:SetIcon is sent and no histogram sample added.
C3_IconIff ==
    (HandledEvent /\ TopLevelLink /\ Has(RelTokens, S_icon)) =>
        LET accepted == env.siteIcons /\ GetLinkIconURI(link, env).kind = "uri"
        IN  /\ Sent("Link:SetIcon") # {} <=> accepted
            /\ ~accepted => Sent("Link:SetIcon") = {} /\ Entries("histogramAdd") = {}

\* a change event that set the icon
C3_Witness ==
    /\ evType = "DOMLinkChanged"
    /\ TopLevelLink /\ Has(RelTokens, S_icon)
    /\ Sent("Link:SetIcon") # {}

\* the type as the claim normalises it: lower case, leading white space removed,
\* the text from the first ";" on removed
RECURSIVE C4_CutAtSemicolon(_)
C4_CutAtSemicolon(s) ==
    IF s = <<>> \/ Head(s) = ";" THEN <<>>
    ELSE <<Head(s)>> \o C4_CutAtSemicolon(Tail(s))

C4_NormalisedType(type) == C4_CutAtSemicolon(SkipSpaces(ToLowerCase(type)))

\* C4: for a top-level link with a search token, Link:AddSearch is sent if and
\* only if the event is DOMLinkAdded, the normalised type is
\* application/opensearchdescription+xml, the title is not empty and href starts
\* with http:, https: or ftp:.
C4_SearchIff ==
    (HandledEvent /\ TopLevelLink /\ Has(RelTokens, S_search)) =>
        ( Sent("Link:AddSearch") # {}
          <=> /\ evType = "DOMLinkAdded"
              /\ C4_NormalisedType(link.type) = S_opensearch
              /\ link.title # <<>>
              /\ SearchHrefTest(link.href) )

LacksFeedIconSearch ==
    ~Has(RelTokens, S_feed) /\ ~Has(RelTokens, S_icon) /\ ~Has(RelTokens, S_search)

\* C5, as stated: a rel without feed, icon and search tokens sends no message.
C5_Original ==
    (HandledEvent /\ LacksFeedIconSearch) => Entries("sendAsyncMessage") = {}

\* C5, amended: a rel without feed, alternate, icon and search tokens sends no
\* message, whatever the event and the answers of the host.
C5_NoRecognisedToken ==
    (HandledEvent /\ LacksFeedIconSearch /\ ~Has(RelTokens, S_alternate)) =>
        Entries("sendAsyncMessage") = {}

\* a top-level stylesheet-like link on a page where every check would pass
C5_Witness ==
    /\ evType = "DOMLinkAdded"
    /\ TopLevelLink
    /\ env = EnvOK /\ link.type = S_opensearch
    /\ Has(RelTokens, S_stylesheet)
    /\ LacksFeedIconSearch /\ ~Has(RelTokens, S_alternate)
    /\ trace = <<>>

\* C6: a link in a sub-frame sends no message, adds no histogram sample and
\* invokes neither the feed check nor the icon validator.
C6_SubFrameSilent ==
    (HandledEvent /\ ~link.top) => (trace = <<>> /\ ~threw)

\* a sub-frame link with feed, icon and search tokens, every check passing
C6_Witness ==
    /\ evType = "DOMLinkAdded"
    /\ ~link.top /\ link.href # <<>>
    /\ Has(RelTokens, S_feed) /\ Has(RelTokens, S_icon) /\ Has(RelTokens, S_search)
    /\ env = EnvOK /\ link.type = S_opensearch
    /\ trace = <<>>

\* C7: getLinkIconURI never raises to its caller: it returns a URI or nothing,
\* and onLinkEvent goes on with the remaining tokens.
C7_NeverRaises ==
    /\ \A i \in Entries("getLinkIconURI") : trace[i].ret \in {"uri", "null"}
    /\ ~threw

\* the calls of one getLinkIconURI run, read from the trace
IconRet == trace[CHOOSE i \in Entries("getLinkIconURI") : TRUE].ret
LoadChecks == Entries("checkLoadURIWithPrincipal")
Verdicts == { trace[i].verdict : i \in Entries("shouldLoad") }

\* C8: getLinkIconURI returns a URI exactly when the content policy verdict is
\* ACCEPT and either the document is allow-listed and the icon has the chrome
\* scheme, and then checkLoadURIWithPrincipal is not invoked, or
\* checkLoadURIWithPrincipal is invoked and does not throw; a page that is not
\* allow-listed, or has a non-chrome icon, is rejected when the check throws.
C8_IconAccepted ==
    Entries("getLinkIconURI") # {} =>
        LET allowed == IsAllowedPage(link.documentURI)
            chrome == SchemeOf(link.href) = S_chrome
        IN  /\ IconRet = "uri"
               <=> /\ Verdicts = {"ACCEPT"}
                   /\ \/ allowed /\ chrome /\ LoadChecks = {}
                      \/ /\ Cardinality(LoadChecks) = 1
                         /\ \A i \in LoadChecks : ~trace[i].threw
            /\ (allowed /\ chrome) => LoadChecks = {}
            /\ (env.checkLoadThrows /\ ~(allowed /\ chrome)) => IconRet # "uri"

\* an allow-listed page with a chrome icon, accepted without the load check
C8_Witness ==
    /\ Entries("getLinkIconURI") # {}
    /\ IconRet = "uri"
    /\ IsAllowedPage(link.documentURI)
    /\ env.checkLoadThrows
    /\ LoadChecks = {}

\* what the claim says of a sizes list: the place of the first "any" or
\* mismatching token, the category, and the widths before that place
C10_Stops(size) == ToLowerCase(size) = S_any \/ SizeExec(size) = <<>>
C10_StopAt(sizes) ==
    IF \E i \in 1..Len(sizes) : C10_Stops(sizes[i])
    THEN CHOOSE i \in 1..Len(sizes) :
            C10_Stops(sizes[i]) /\ \A j \in 1..(i - 1) : ~C10_Stops(sizes[j])
    ELSE Len(sizes) + 1
C10_Category(sizes) ==
    IF sizes = <<>> THEN NO_SIZES
    ELSE IF C10_StopAt(sizes) > Len(sizes) THEN DIMENSION
    ELSE IF ToLowerCase(sizes[C10_StopAt(sizes)]) = S_any THEN ANY
    ELSE INVALID
C10_Widths(sizes) ==
    [i \in 1..(C10_StopAt(sizes) - 1) |-> ParseInt(DigitRun(sizes[i]))]

S_16x16 == <<"1","6","x","1","6">>
S_0x16 == <<"0","x","1","6">>

\* C10: when Link:SetIcon is sent, exactly one LINK_ICON_SIZES_ATTR_USAGE sample
\* was added before it, the category of the scan of link.sizes up to the first
\* "any" or mismatching token, and LINK_ICON_SIZES_ATTR_DIMENSION received the
\* widths of the matching tokens before that place: 16x16 any gives ANY and 16,
\* any 16x16 gives ANY and nothing, 0x16 gives INVALID.
C10_SizesTelemetry ==
    Sent("Link:SetIcon") # {} =>
        LET usage == SamplesOf("LINK_ICON_SIZES_ATTR_USAGE", trace)
            dims == SamplesOf("LINK_ICON_SIZES_ATTR_DIMENSION", trace)
        IN  /\ usage = <<C10_Category(link.sizes)>>
            /\ dims = C10_Widths(link.sizes)
            /\ \A i \in Entries("histogramAdd"), m \in Sent("Link:SetIcon") : i < m
            /\ link.sizes = <<S_16x16, S_any>> => usage = <<1>> /\ dims = <<16>>
            /\ link.sizes = <<S_any, S_16x16>> => usage = <<1>> /\ dims = <<>>
            /\ link.sizes = <<S_0x16>> => usage = <<3>> /\ dims = <<>>

\* the icon of a link with sizes="16x16 any" was set
C10_Witness ==
    /\ Sent("Link:SetIcon") # {}
    /\ link.sizes = <<S_16x16, S_any>>
    /\ SamplesOf("LINK_ICON_SIZES_ATTR_DIMENSION", trace) = <<16>>

-----------------------------------------------------------------------------
(* Properties of createSnapshot, checked under SpecSnap.                    *)

\* C9: every createSnapshot call returns an id greater than every id returned
\* before, so no id is reused, and no other function changes ID_COUNTER.
C9_IdsStrictlyIncreasing ==
    [][ /\ result'.fn = "createSnapshot" =>
            /\ Len(issued') = Len(issued) + 1
            /\ SubSeq(issued', 1, Len(issued)) = issued
            /\ issued'[Len(issued')].id = result'.id
            /\ \A i \in 1..Len(issued) : issued[i].id < result'.id
        /\ result'.fn # "createSnapshot" =>
            /\ ID_COUNTER' = ID_COUNTER
            /\ issued' = issued ]_vars

\* three snapshots were created and another helper was called after them
C9_Witness ==
    /\ Len(issued) >= 3
    /\ result.fn = "getSnapshot"
    /\ \A i, j \in 1..Len(issued) : i < j => issued[i].id < issued[j].id

====
